---- MODULE Spec2Model ----
(***************************************************************************)
(* Model of the founder-intelligence evidence pipeline (src/agent.py) and  *)
(* of the batch loop of its Streamlit front end (src/app_streamlit.py).    *)
(*                                                                         *)
(* Python strings that the code takes apart (pasted text, profile URLs)    *)
(* are sequences of one-character strings.  Exceptions are values: every   *)
(* operator that models a function which can raise returns a record with   *)
(* an `exc` field, NoExc when the call returned normally.                  *)
(***************************************************************************)
EXTENDS Integers, Sequences, FiniteSets, TLC

VARIABLES
    pc,          \* position of the operation under study: "start" or "done"
    items,       \* dedupe_links: the argument list
    deduped,     \* dedupe_links: the returned list
    text,        \* sanitize_urls: the pasted text
    urls,        \* sanitize_urls: the returned list
    profile_url, \* score_one_profile: the profile URL (line 367)
    name,        \* score_one_profile: the name guess of line 369
    serp_env,    \* serp_search: the credential and what the search API answers
    serp_ret,    \* serp_search: how the call ended, with the trace of its steps
    corpus_env,  \* collect_profile_corpus: passes and what the web and the search API answer
    corpus_ret,  \* collect_profile_corpus: its result and the fetches it made
    score_env,   \* score_one_profile: passes and what the external services answer
    score_ret,   \* score_one_profile: how the call ended and the report returned
    run_env,     \* app_streamlit.py: the sidebar keys and what validation meets
    results,     \* app_streamlit.py: the list `results` of line 197
    idx,         \* app_streamlit.py: the position of the loop of line 201 in urls
    search_env,  \* the query batches: which batch, passes and what the search API answers
    evidence_ret,\* the query batches: the (records, log) pair returned
    fetch_resp,  \* fetch_url: what requests.get does
    fetch_ret    \* fetch_url: the triple returned

vars == <<pc, items, deduped, text, urls, profile_url, name, serp_env, serp_ret,
          corpus_env, corpus_ret, score_env, score_ret, run_env, results, idx,
          search_env, evidence_ret, fetch_resp, fetch_ret>>

-----------------------------------------------------------------------------
(* Bounds of the explored input sets                                       *)

MaxItems == 3
MaxLines == 3
MaxSlugLen == 3
MaxResults == 2
MaxPerQuery == 3
MaxPasses == 2
MaxBatch == 2

-----------------------------------------------------------------------------
(* Python str primitives on sequences of characters                        *)

\* Python's None
None == "<None>"

\* characters str.strip() removes and str.split() splits on
Whitespace == {" ", "\t", "\n", "\r"}

\* characters str.splitlines() breaks lines on
LineBreaks == {"\n", "\r"}

Digits == {"0", "1", "2", "3", "4", "5", "6", "7", "8", "9"}

LowerAlpha == <<"a", "b", "c", "d", "e", "f", "g", "h", "i", "j", "k", "l", "m",
                "n", "o", "p", "q", "r", "s", "t", "u", "v", "w", "x", "y", "z">>

UpperAlpha == <<"A", "B", "C", "D", "E", "F", "G", "H", "I", "J", "K", "L", "M",
                "N", "O", "P", "Q", "R", "S", "T", "U", "V", "W", "X", "Y", "Z">>

Range(f) == {f[i] : i \in DOMAIN f}

IndexOf(c, alpha) == CHOOSE i \in DOMAIN alpha : alpha[i] = c

\* str.upper() / str.lower() of one character
Upper(c) == IF c \in Range(LowerAlpha) THEN UpperAlpha[IndexOf(c, LowerAlpha)] ELSE c

Lower(c) == IF c \in Range(UpperAlpha) THEN LowerAlpha[IndexOf(c, UpperAlpha)] ELSE c

\* str.capitalize()
Capitalize(w) ==
    [i \in 1..Len(w) |-> IF i = 1 THEN Upper(w[i]) ELSE Lower(w[i])]

RECURSIVE LStrip(_, _)
LStrip(s, cs) ==
    IF s = <<>> THEN s
    ELSE IF Head(s) \in cs THEN LStrip(Tail(s), cs) ELSE s

RECURSIVE RStrip(_, _)
RStrip(s, cs) ==
    IF s = <<>> THEN s
    ELSE IF s[Len(s)] \in cs THEN RStrip(SubSeq(s, 1, Len(s) - 1), cs) ELSE s

\* str.strip(chars); str.strip() is Strip(s, Whitespace)
Strip(s, cs) == RStrip(LStrip(s, cs), cs)

\* str.find(sub) + 1: the first position where sub occurs in s, 0 when it does not
Find(s, sub) ==
    LET hits == {i \in 1..(Len(s) - Len(sub) + 1) : SubSeq(s, i, i + Len(sub) - 1) = sub}
    IN  IF hits = {} THEN 0 ELSE CHOOSE i \in hits : \A j \in hits : i <= j

\* sub in s
Contains(s, sub) == Find(s, sub) # 0

\* str.split(sep), sep non-empty
RECURSIVE Split(_, _)
Split(s, sep) ==
    LET i == Find(s, sep)
    IN  IF i = 0 THEN <<s>>
        ELSE <<SubSeq(s, 1, i - 1)>> \o Split(SubSeq(s, i + Len(sep), Len(s)), sep)

\* sep.join(parts)
RECURSIVE Join(_, _)
Join(parts, sep) ==
    IF parts = <<>> THEN <<>>
    ELSE IF Len(parts) = 1 THEN parts[1]
    ELSE parts[1] \o sep \o Join(Tail(parts), sep)

\* str.replace(old, new)
Replace(s, old, new) == Join(Split(s, old), new)

\* the pieces of s between the characters of cs, empty pieces included
RECURSIVE SplitOn(_, _, _)
SplitOn(s, cs, cur) ==
    IF s = <<>> THEN <<cur>>
    ELSE IF Head(s) \in cs THEN <<cur>> \o SplitOn(Tail(s), cs, <<>>)
    ELSE SplitOn(Tail(s), cs, Append(cur, Head(s)))

\* str.split() without argument: the maximal runs of non-whitespace
SplitWS(s) == SelectSeq(SplitOn(s, Whitespace, <<>>), LAMBDA w : w # <<>>)

\* str.splitlines(): a line break ends a line, so no empty last line
SplitLines(s) ==
    LET parts == SplitOn(s, LineBreaks, <<>>)
    IN  IF parts[Len(parts)] = <<>> THEN SubSeq(parts, 1, Len(parts) - 1) ELSE parts

\* [line.strip() for line in lines]
StripAll(lines) == [i \in 1..Len(lines) |-> Strip(lines[i], Whitespace)]

\* [w.capitalize() for w in ws]
CapitalizeAll(ws) == [i \in 1..Len(ws) |-> Capitalize(ws[i])]

\* the profile-path marker "linkedin.com/in/" of lines 34 and 46
Marker == <<"l", "i", "n", "k", "e", "d", "i", "n", ".", "c", "o", "m", "/", "i", "n", "/">>

-----------------------------------------------------------------------------
(* sanitize_urls, agent.py lines 28-42                                     *)

\* lines 29-35: the stripped, non-blank lines that contain the marker
MarkerLines(t) ==
    SelectSeq(StripAll(SplitLines(t)),
              LAMBDA line : line # <<>> /\ Contains(line, Marker))

\* the loop of lines 36-41 without its membership test
KeepEveryOccurrence(us, seen) == us

\* lines 36-41: the loop that keeps the first occurrence of each entry
RECURSIVE FirstOccurrences(_, _)
FirstOccurrences(us, seen) ==
    IF us = <<>> THEN <<>>
    ELSE IF Head(us) \notin seen
         THEN <<Head(us)>> \o FirstOccurrences(Tail(us), seen \cup {Head(us)})
         ELSE FirstOccurrences(Tail(us), seen)

sanitize_urls(t) == FirstOccurrences(MarkerLines(t), {})

-----------------------------------------------------------------------------
(* extract_name_from_linkedin, agent.py lines 44-52, and line 369          *)

extract_name_from_linkedin(url) ==
    LET pieces == Split(url, Marker)
    IN  IF Len(pieces) < 2
        THEN <<>>                                             \* IndexError, line 51
        ELSE LET slug1 == Strip(pieces[2], {"/"})             \* line 46
                 slug2 == Split(slug1, <<"?">>)[1]            \* line 47
                 slug3 == Replace(Replace(Replace(slug2, <<"%", "2", "0">>, <<" ">>),
                                          <<"-">>, <<" ">>), <<"_">>, <<" ">>)
                 kept  == SelectSeq(SplitWS(slug3),
                                    LAMBDA t : \A i \in 1..Len(t) : t[i] \notin Digits)
                 slug4 == Join(kept, <<" ">>)                 \* line 49
                 words == CapitalizeAll(SplitWS(slug4))
             IN  Strip(Join(words, <<" ">>), Whitespace)      \* line 50

\* the right operand of `or` on line 369
TrailingSegmentName(url) ==
    LET segs == Split(Strip(url, {"/"}), <<"/">>)
    IN  Strip(Replace(segs[Len(segs)], <<"-">>, <<" ">>), Whitespace)

\* line 369: the empty string is falsy
name_guess(url) ==
    IF extract_name_from_linkedin(url) # <<>>
    THEN extract_name_from_linkedin(url)
    ELSE TrailingSegmentName(url)

-----------------------------------------------------------------------------
(* Exceptions                                                              *)

NoExc == [type |-> "none"]

Exc(type, msg) == [type |-> type, msg |-> msg]

\* tenacity.RetryError: it carries the last attempt, whose exception is the cause
RetryError(cause) == [type |-> "RetryError", last_attempt |-> cause]

Raised(r) == r.exc # NoExc

-----------------------------------------------------------------------------
(* The retry decorator of lines 113 and 296:                               *)
(* @retry(stop=stop_after_attempt(3), wait=wait_exponential(min=1, max=6)) *)

StopAfterAttempt == 3
WaitMin == 1
WaitMax == 6

Min2(a, b) == IF a < b THEN a ELSE b
Max2(a, b) == IF a > b THEN a ELSE b

\* wait_exponential: multiplier * 2^(attempt_number - 1), clamped to [min, max];
\* releases of the library before 6.0 use the exponent attempt_number, which
\* `first_exp` (0 or 1) stands for
wait_exponential(attempt_number, first_exp) ==
    Max2(WaitMin, Min2(2 ^ (attempt_number - 1 + first_exp), WaitMax))

\* a stop condition that gives up one attempt early
stop_one_early(attempt_number) == attempt_number >= StopAfterAttempt - 1

\* stop_after_attempt(3)
stop_after_attempt(attempt_number) == attempt_number >= StopAfterAttempt

\* The loop of the decorator.  attempts[n] is what the n-th call of the
\* wrapped function does: [exc, value, request].  Any exception is retried;
\* when the stop condition holds the loop raises RetryError instead.
RECURSIVE RetryLoop(_, _, _, _)
RetryLoop(attempts, n, first_exp, trace) ==
    LET a  == attempts[n]
        ev == [ev |-> "attempt", n |-> n, request |-> a.request, exc |-> a.exc]
    IN  IF ~Raised(a)
        THEN [exc |-> NoExc, value |-> a.value, trace |-> Append(trace, ev)]
        ELSE IF stop_after_attempt(n)
        THEN [exc |-> RetryError(a.exc), value |-> None, trace |-> Append(trace, ev)]
        ELSE RetryLoop(attempts, n + 1, first_exp,
                       trace \o <<ev, [ev |-> "sleep", t |-> wait_exponential(n, first_exp)]>>)

-----------------------------------------------------------------------------
(* serp_key_required and serp_search, agent.py lines 107-134               *)

\* lines 108-111; `key` is the value of SERPAPI_API_KEY, "" when unset
serp_key_required(key) ==
    IF Strip(key, Whitespace) = <<>>
    THEN [exc |-> Exc("RuntimeError", "Missing SERPAPI_API_KEY"), value |-> None]
    ELSE [exc |-> NoExc, value |-> Strip(key, Whitespace)]

\* resp.raise_for_status(): 4xx and 5xx raise HTTPError
raise_for_status(status) == status >= 400 /\ status < 600

\* lines 126-133: one record per organic result, missing fields defaulted to ""
\* (snippet and source_domain, which nothing downstream reads, are left out)
OrganicRecords(organic, query) ==
    [i \in 1..Len(organic) |->
        [title |-> IF "title" \in DOMAIN organic[i] THEN organic[i].title ELSE "",
         link  |-> IF "link" \in DOMAIN organic[i] THEN organic[i].link ELSE "",
         query |-> query]]

\* one execution of the body of serp_search (lines 115-134) against one
\* answer of the network: [net |-> "ConnectionError" | "Timeout"] when
\* requests.get raises, else [net |-> "http", status, json] with json
\* [valid |-> FALSE] for a body that is not JSON, else the parsed body
serp_search_once(key, query, resp) ==
    IF Raised(serp_key_required(key))
    THEN [exc |-> serp_key_required(key).exc, value |-> None, request |-> FALSE]
    ELSE IF resp.net # "http"
    THEN [exc |-> Exc(resp.net, "requests.get failed"), value |-> None, request |-> TRUE]
    ELSE IF raise_for_status(resp.status)
    THEN [exc |-> Exc("HTTPError", "status error"), value |-> None, request |-> TRUE]
    ELSE IF ~resp.json.valid
    THEN [exc |-> Exc("JSONDecodeError", "invalid body"), value |-> None, request |-> TRUE]
    ELSE [exc |-> NoExc, value |-> OrganicRecords(resp.json.organic_results, query), request |-> TRUE]

\* the decorated serp_search: env = [key, resps, first_exp], resps[n] the
\* network's answer to the n-th attempt
serp_search(query, env) ==
    RetryLoop([n \in 1..StopAfterAttempt |-> serp_search_once(env.key, query, env.resps[n])],
              1, env.first_exp, <<>>)

-----------------------------------------------------------------------------
(* dedupe_links, agent.py lines 136-145                                    *)

\* it.get("link")
GetLink(it) == IF "link" \in DOMAIN it THEN it.link ELSE None

\* a test for None alone, which keeps records whose link is the empty string
FalsyNoneOnly(link) == link = None

\* `not link`: None and the empty string are falsy
Falsy(link) == link = None \/ link = ""

RECURSIVE DedupeLoop(_, _)
DedupeLoop(its, seen) ==
    IF its = <<>> THEN <<>>
    ELSE LET link == GetLink(Head(its))
         IN  IF Falsy(link) \/ link \in seen
             THEN DedupeLoop(Tail(its), seen)
             ELSE <<Head(its)>> \o DedupeLoop(Tail(its), seen \cup {link})

dedupe_links(its) == DedupeLoop(its, {})

-----------------------------------------------------------------------------
(* Page text.  A text is a sequence of runs [ws, n]: n whitespace           *)
(* characters (ws) or n other characters, neighbouring runs of different   *)
(* kind.  Optional values are sequences of length 0 (None) or 1.           *)
(* A whitespace run inside a cleaned text can be long: lines 99-100        *)
(* collapse runs of blanks and tabs and runs of newlines, but neither runs *)
(* that alternate the two nor carriage returns or no-break spaces, all of  *)
(* which str.strip() removes.                                              *)

MinChars == 400
ProfileSnippetChars == 1600
PageSnippetChars == 1200
MaxCandidates == 8
MaxAccepted == 5

Chars(n) == [ws |-> FALSE, n |-> n]
Blanks(n) == [ws |-> TRUE, n |-> n]

\* len(text)
RECURSIVE TextLen(_)
TextLen(t) == IF t = <<>> THEN 0 ELSE Head(t).n + TextLen(Tail(t))

\* text[:k]
RECURSIVE Take(_, _)
Take(t, k) ==
    IF t = <<>> \/ k <= 0 THEN <<>>
    ELSE IF Head(t).n >= k THEN <<[ws |-> Head(t).ws, n |-> k]>>
    ELSE <<Head(t)>> \o Take(Tail(t), k - Head(t).n)

\* text.strip(): whitespace runs at either end go
StripText(t) ==
    LET l == IF t # <<>> /\ Head(t).ws THEN Tail(t) ELSE t
    IN  IF l # <<>> /\ l[Len(l)].ws THEN SubSeq(l, 1, Len(l) - 1) ELSE l

\* text[:max_chars].replace("\n", " ").strip(), lines 207 and 236; replacing a
\* newline by a space changes no run
Snippet(t, max_chars) == StripText(Take(t, max_chars))

\* visible_text_from_html, lines 89-101: the parser's work is the
\* environment's; html.text is the cleaned text (stripped, line 101), and
\* html.rejected tells that BeautifulSoup raises on this markup
visible_text_from_html(html) ==
    IF html.rejected
    THEN [exc |-> Exc("ParserRejectedMarkup", "markup rejected"), value |-> <<>>]
    ELSE [exc |-> NoExc, value |-> StripText(html.text)]

-----------------------------------------------------------------------------
(* fetch_url, agent.py lines 80-87                                         *)

\* a variant that returns the body of any response that has one
fetch_url_any_status(resp) ==
    IF resp.net # "http"
    THEN [html |-> <<>>, status |-> 0,
          note |-> [kind |-> "request_error", detail |-> resp.net]]
    ELSE IF resp.body # <<>>
    THEN [html |-> resp.body, status |-> resp.status, note |-> [kind |-> "ok"]]
    ELSE [html |-> <<>>, status |-> resp.status,
          note |-> [kind |-> "http_status", status |-> resp.status]]

\* resp is what requests.get does: [net |-> "ConnectionError" | "Timeout"]
\* when it raises a RequestException, else [net |-> "http", status, body]
\* with body <<>> for an empty r.text and <<html>> otherwise
fetch_url(resp) ==
    IF resp.net # "http"
    THEN [html |-> <<>>, status |-> 0,
          note |-> [kind |-> "request_error", detail |-> resp.net]]
    ELSE IF resp.status = 200 /\ resp.body # <<>>
    THEN [html |-> resp.body, status |-> 200, note |-> [kind |-> "ok"]]
    ELSE [html |-> <<>>, status |-> resp.status,
          note |-> [kind |-> "http_status", status |-> resp.status]]

\* fetch_and_snippet, lines 202-221 (title and source_domain left out);
\* `fetch` records the call of fetch_url it makes
fetch_and_snippet(url, resp) ==
    LET f     == fetch_url(resp)
        fetch == [url |-> url, status |-> f.status, note |-> f.note]
    IN  IF f.html = <<>>
        THEN [exc |-> NoExc, value |-> <<>>, fetch |-> fetch]
        ELSE LET vt == visible_text_from_html(f.html[1])
             IN  IF Raised(vt)
                 THEN [exc |-> vt.exc, value |-> <<>>, fetch |-> fetch]
                 ELSE [exc |-> NoExc, fetch |-> fetch,
                       value |-> <<[query |-> "direct_fetch", link |-> url,
                                    snippet |-> Snippet(vt.value, PageSnippetChars)]>>]

-----------------------------------------------------------------------------
(* The query batches, agent.py lines 149-200                               *)

\* the templates, by position
ENTREPRENEUR_QUERIES == <<"e1", "e2", "e3", "e4", "e5", "e6", "e7">>
DISCOVERY_QUERIES == <<"d1", "d2", "d3", "d4">>

QueriesPerPass == 3

\* q.format(name=name)
FormatQuery(q, name_) == [template |-> q, name |-> name_]

\* str(e) of the exception caught on lines 177 and 194
StrExc(e) ==
    IF e.type = "RetryError"
    THEN <<"RetryError[", e.last_attempt.type, "]">>
    ELSE <<e.msg>>

\* the search environment answers every attempt of one query alike:
\* senv = [key, answers], answers[template] a response of the search API
SerpEnvOf(senv, q) ==
    [key |-> senv.key, first_exp |-> 0,
     resps |-> [n \in 1..StopAfterAttempt |-> senv.answers[q]]]

\* the loops of lines 172-180 and 189-197
RECURSIVE QueryLoop(_, _, _, _, _, _)
QueryLoop(queries, action, name_, senv, trav, found) ==
    IF queries = <<>> THEN [trav |-> trav, results |-> found]
    ELSE LET query == FormatQuery(Head(queries), name_)
             r     == serp_search(query, SerpEnvOf(senv, Head(queries)))
             trav1 == Append(trav, [action |-> action, query |-> query])
         IN  IF Raised(r)
             THEN QueryLoop(Tail(queries), action, name_, senv,
                            Append(trav1, [action |-> "error", query |-> query,
                                           error |-> StrExc(r.exc)]),
                            found)
             ELSE QueryLoop(Tail(queries), action, name_, senv, trav1,
                            found \o r.value)

\* a slice that takes one template per pass
FirstQueriesOnePerPass(templates, passes) ==
    SubSeq(templates, 1, Min2(Max2(passes, 0), Len(templates)))

\* queries[: passes * 3]
FirstQueries(templates, passes) ==
    SubSeq(templates, 1, Min2(Max2(passes * QueriesPerPass, 0), Len(templates)))

\* lines 168-183
collect_entrepreneur_evidence(name_, passes, senv) ==
    LET l       == QueryLoop(FirstQueries(ENTREPRENEUR_QUERIES, passes), "serp_search",
                             name_, senv, <<>>, <<>>)
        evidence == dedupe_links(l.results)
    IN  [results |-> evidence,
         trav |-> Append(l.trav, [action |-> "entrepreneur_aggregate",
                                  total_results |-> Len(evidence)])]

\* lines 185-200
discover_personal_sources(name_, passes, senv) ==
    LET l    == QueryLoop(FirstQueries(DISCOVERY_QUERIES, passes), "serp_discovery",
                          name_, senv, <<>>, <<>>)
        urls_ == dedupe_links(l.results)
    IN  [results |-> urls_,
         trav |-> Append(l.trav, [action |-> "discovery_aggregate",
                                  total_results |-> Len(urls_)])]

-----------------------------------------------------------------------------
(* collect_profile_corpus, agent.py lines 223-251                          *)

\* line 245: len(page.get("snippet", "")) > 400
LongEnough(snippet) == TextLen(snippet) > MinChars

\* a loop that tests the count of accepted pages against the candidate cap
EnoughAcceptedLate(fetched_any) == fetched_any >= MaxCandidates

\* line 248: fetched_any >= 5
EnoughAccepted(fetched_any) == fetched_any >= MaxAccepted

\* the web answers the k-th fetch of a discovered link with pages[k]
PageResp(pages, k) == pages[Min2(k, Len(pages))]

\* the loop of lines 243-249 over discovered[:8]; k counts the candidates
RECURSIVE FallbackLoop(_, _, _, _, _, _)
FallbackLoop(cands, k, pages, corpus, fetched_any, fetches) ==
    IF k > Len(cands)
    THEN [exc |-> NoExc, corpus |-> corpus, fetched_any |-> fetched_any,
          fetches |-> fetches]
    ELSE LET p    == fetch_and_snippet(cands[k].link, PageResp(pages, k))
             ok   == p.value # <<>> /\ LongEnough(p.value[1].snippet)
             c1   == IF ok THEN Append(corpus, p.value[1]) ELSE corpus
             n1   == IF ok THEN fetched_any + 1 ELSE fetched_any
             f1   == Append(fetches, p.fetch)
         IN  IF Raised(p)
             THEN [exc |-> p.exc, corpus |-> corpus, fetched_any |-> fetched_any,
                   fetches |-> f1]
             ELSE IF EnoughAccepted(n1)
             THEN [exc |-> NoExc, corpus |-> c1, fetched_any |-> n1, fetches |-> f1]
             ELSE FallbackLoop(cands, k + 1, pages, c1, n1, f1)

\* lines 239-250: the fallback path
Fallback(name_, passes, env, corpus, trav, fetches) ==
    LET d     == discover_personal_sources(name_, passes, env.search)
        cands == SubSeq(d.results, 1, Min2(MaxCandidates, Len(d.results)))
        l     == FallbackLoop(cands, 1, env.pages, corpus, 0, fetches)
    IN  IF Raised(l)
        THEN [exc |-> l.exc, corpus |-> <<>>, trav |-> trav \o d.trav,    \* line 241
              fetches |-> l.fetches, fallback |-> TRUE, discovered |-> d.results]
        ELSE [exc |-> NoExc, corpus |-> l.corpus,
              trav |-> (trav \o d.trav) \o
                       <<[action |-> "personal_sources_used", count |-> l.fetched_any]>>,
              fetches |-> l.fetches, fallback |-> TRUE, discovered |-> d.results]

\* env = [direct, search, pages]: the answer to the fetch of the profile URL,
\* the search environment, and the answers to the fetches of discovered
\* links.  Besides (corpus, trav) the result tells the calls of fetch_url
\* made (fetches), whether the fallback path ran, and what it discovered.
\* When the call raises, trav is the local list `trav` at that moment, which
\* the caller never receives.
collect_profile_corpus(profile_url_, name_, passes, env) ==
    LET f       == fetch_url(env.direct)
        fetches == <<[url |-> profile_url_, status |-> f.status, note |-> f.note]>>
        trav1   == <<[action |-> "fetch_linkedin", url |-> profile_url_],
                     [action |-> "fetch_linkedin_result", status |-> f.status,
                      note |-> f.note]>>
    IN  IF f.html = <<>>
        THEN Fallback(name_, passes, env, <<>>, trav1, fetches)
        ELSE LET vt == visible_text_from_html(f.html[1])
             IN  IF Raised(vt)
                 THEN [exc |-> vt.exc, corpus |-> <<>>, trav |-> trav1,
                       fetches |-> fetches, fallback |-> FALSE, discovered |-> <<>>]
                 ELSE LET trav2  == Append(trav1, [action |-> "linkedin_text_len",
                                                   length |-> TextLen(vt.value)])
                          corpus == IF TextLen(vt.value) > MinChars     \* line 231
                                    THEN <<[query |-> "linkedin_profile",
                                            link |-> profile_url_,
                                            snippet |-> Snippet(vt.value,
                                                                ProfileSnippetChars)]>>
                                    ELSE <<>>
                      IN  IF corpus = <<>> \/ TextLen(corpus[1].snippet) < MinChars
                          THEN Fallback(name_, passes, env, corpus, trav2, fetches)
                          ELSE [exc |-> NoExc, corpus |-> corpus, trav |-> trav2,
                                fetches |-> fetches, fallback |-> FALSE,
                                discovered |-> <<>>]

-----------------------------------------------------------------------------
(* judge_with_llm, agent.py lines 296-363.  JSON values are records:       *)
(* numbers [t |-> "num", v] with v in tenths, the float nan that           *)
(* json.loads makes of the literal NaN, strings, null and lists.  A Python *)
(* float is written the same way.                                          *)

JNum(v) == [t |-> "num", v |-> v]
JNaN == [t |-> "nan"]
JStr == [t |-> "str"]
JNull == [t |-> "null"]
JList(l) == [t |-> "list", v |-> l]

\* the defaults of lines 345-353 and of the .get calls of lines 384-392
JudgeDefaults ==
    [source_confidence_assessments |-> JList(<<>>),
     high_confidence_sources_used |-> JList(<<>>),
     entrepreneurial_score |-> JNum(0),
     contrarian_multiplier |-> JNum(10),
     final_score |-> JNum(0),
     entrepreneurial_evidence_points |-> JList(<<>>),
     contrarian_evidence_points |-> JList(<<>>),
     summary |-> JStr,
     confidence |-> JNum(0)]

\* the data.setdefault calls of lines 345-353
SetDefaults(data) ==
    [k \in DOMAIN JudgeDefaults \cup DOMAIN data |->
        IF k \in DOMAIN data THEN data[k] ELSE JudgeDefaults[k]]

ClampLow == 10
ClampHigh == 15

\* whether `>` and `<` of lines 355 and 357 raise TypeError on this value
Unorderable(x) == x.t \notin {"num", "nan"}

\* x > c and x < c for a number x: every comparison with nan is False
Gt(x, c) == x.t = "num" /\ x.v > c
Lt(x, c) == x.t = "num" /\ x.v < c

\* lines 355-358 on a number
Clamp(x) ==
    IF Gt(x, ClampHigh) THEN JNum(ClampHigh)
    ELSE IF Lt(x, ClampLow) THEN JNum(ClampLow)
    ELSE x

\* a RuntimeError raised by line 363, which wraps whatever the inner block raised
JudgingError(inner) == Exc("RuntimeError", "Error in LLM judging: " \o inner)

\* one execution of the body of judge_with_llm against one answer of the
\* judgment service: jresp = [client, create, content] with
\*   client  "ok", or why openai_client() raises (lines 266-284)
\*   create  "ok", "fallback" (the first create call raised, the second
\*           returned) or "error" (both raised)
\*   content [kind |-> "invalid"] for a body that is not JSON,
\*           [kind |-> "list"] for JSON that is no object, else
\*           [kind |-> "object", data |-> the object]
judge_once(jresp) ==
    IF jresp.client # "ok"
    THEN [exc |-> Exc("RuntimeError", jresp.client), value |-> <<>>, request |-> FALSE]
    ELSE IF jresp.create = "error"
    THEN [exc |-> JudgingError("APIError"), value |-> <<>>, request |-> TRUE]
    ELSE IF jresp.content.kind = "invalid"
    THEN [exc |-> JudgingError("Failed to parse JSON response"), value |-> <<>>,
          request |-> TRUE]
    ELSE IF jresp.content.kind # "object"
    THEN [exc |-> JudgingError("AttributeError: setdefault"), value |-> <<>>,
          request |-> TRUE]
    ELSE LET data == SetDefaults(jresp.content.data)
         IN  IF Unorderable(data.contrarian_multiplier)
             THEN [exc |-> JudgingError("TypeError: '>' not supported"), value |-> <<>>,
                   request |-> TRUE]
             ELSE [exc |-> NoExc, request |-> TRUE,
                   value |-> [data EXCEPT !.contrarian_multiplier =
                                              Clamp(data.contrarian_multiplier)]]

\* the decorated judge_with_llm: jenv = [resps], resps[n] the answer to the
\* n-th attempt
judge_with_llm(jenv) ==
    RetryLoop([n \in 1..StopAfterAttempt |-> judge_once(jenv.resps[n])], 1, 0, <<>>)

-----------------------------------------------------------------------------
(* score_one_profile, agent.py lines 367-423                               *)

\* float(x)
ToFloat(x) ==
    IF x.t \in {"num", "nan"} THEN [exc |-> NoExc, value |-> x]
    ELSE IF x.t = "str"
    THEN [exc |-> Exc("ValueError", "could not convert string to float"),
          value |-> JNum(0)]
    ELSE [exc |-> Exc("TypeError", "float() argument must be a string or a real number"),
          value |-> JNum(0)]

\* list(x): a string is iterable, a number and None are not
ToList(x) ==
    IF x.t = "list" THEN [exc |-> NoExc, value |-> x.v]
    ELSE IF x.t = "str" THEN [exc |-> NoExc, value |-> <<>>]
    ELSE [exc |-> Exc("TypeError", "object is not iterable"), value |-> <<>>]

\* llm_result.get(k, default)
GetOr(d, k) == IF k \in DOMAIN d THEN d[k] ELSE JudgeDefaults[k]

\* the first exception among conversions evaluated in order
RECURSIVE FirstExc(_)
FirstExc(rs) ==
    IF rs = <<>> THEN NoExc
    ELSE IF Raised(Head(rs)) THEN Head(rs).exc ELSE FirstExc(Tail(rs))

\* lines 400-406: the message of the exception, or for a RetryError the
\* type and message of the exception of its last attempt
RootMsg(e) ==
    IF e.type = "RetryError"
    THEN e.last_attempt.type \o ": " \o e.last_attempt.msg
    ELSE e.msg

\* lines 407-423
FailureReport(profile_url_, name_, traversal, e) ==
    [profile_url |-> profile_url_,
     name_guess |-> name_,
     entrepreneurial_score |-> JNum(0),
     contrarian_multiplier |-> JNum(10),
     final_score |-> JNum(0),
     summary |-> "Error during analysis: " \o RootMsg(e),
     confidence |-> JNum(0),
     entrepreneurial_evidence_points |-> <<>>,
     contrarian_evidence_points |-> <<>>,
     source_confidence_assessments |-> <<>>,
     high_confidence_sources_used |-> <<>>,
     pages |-> <<>>,
     search_evidence |-> <<>>,
     traversal_log |-> traversal,
     error |-> RootMsg(e)]

\* lines 381-396: the conversions, then the report
SuccessReport(profile_url_, name_, llm_result, pages, ent_evidence, traversal) ==
    LET es  == ToFloat(GetOr(llm_result, "entrepreneurial_score"))
        cm  == ToFloat(GetOr(llm_result, "contrarian_multiplier"))
        fs  == ToFloat(GetOr(llm_result, "final_score"))
        cf  == ToFloat(GetOr(llm_result, "confidence"))
        eep == ToList(GetOr(llm_result, "entrepreneurial_evidence_points"))
        cep == ToList(GetOr(llm_result, "contrarian_evidence_points"))
        sca == ToList(GetOr(llm_result, "source_confidence_assessments"))
        hcs == ToList(GetOr(llm_result, "high_confidence_sources_used"))
        e   == FirstExc(<<es, cm, fs, cf, eep, cep, sca, hcs>>)
    IN  [exc |-> e,
         value |-> [profile_url |-> profile_url_,
                    name_guess |-> name_,
                    entrepreneurial_score |-> es.value,
                    contrarian_multiplier |-> cm.value,
                    final_score |-> fs.value,
                    summary |-> GetOr(llm_result, "summary"),
                    confidence |-> cf.value,
                    entrepreneurial_evidence_points |-> eep.value,
                    contrarian_evidence_points |-> cep.value,
                    source_confidence_assessments |-> sca.value,
                    high_confidence_sources_used |-> hcs.value,
                    pages |-> pages,
                    search_evidence |-> ent_evidence,
                    traversal_log |-> traversal]]

\* a handler that catches the retry error alone
CaughtRetryErrorOnly(e) == e.type = "RetryError"

\* line 398: `except Exception` catches every exception
Caught(e) == TRUE

\* the except clause of lines 398-423, reached with the traversal built so far
Handle(profile_url_, name_, traversal, e) ==
    IF Caught(e)
    THEN [exc |-> NoExc, value |-> FailureReport(profile_url_, name_, traversal, e)]
    ELSE [exc |-> e, value |-> <<>>]

\* lines 381-396 after the conversions: the report, or the handler when a
\* conversion raised
ReturnOrHandle(profile_url_, name_, traversal, r) ==
    IF Raised(r) THEN Handle(profile_url_, name_, traversal, r.exc) ELSE r

\* lines 379-396 once judge_with_llm has answered with j
JudgeStage(profile_url_, name_, pages, ent_evidence, traversal, j) ==
    IF Raised(j)
    THEN Handle(profile_url_, name_, traversal, j.exc)
    ELSE ReturnOrHandle(profile_url_, name_, traversal,
                        SuccessReport(profile_url_, name_, j.value, pages, ent_evidence,
                                      traversal))

\* lines 374-379 once both collections have returned: c the corpus and its
\* traversal, ev the evidence and its traversal
EvidenceStage(profile_url_, name_, c, ev, jenv) ==
    JudgeStage(profile_url_, name_, c.corpus, ev.results,
               c.trav \o ev.trav,                                \* lines 374, 377
               judge_with_llm(jenv))

\* lines 373-396 once collect_profile_corpus has ended with c: when it raised,
\* the handler runs with the traversal still empty
CorpusStage(profile_url_, name_, passes, env, c) ==
    IF Raised(c)
    THEN Handle(profile_url_, name_, <<>>, c.exc)
    ELSE EvidenceStage(profile_url_, name_, c,
                       collect_entrepreneur_evidence(name_, passes, env.search),
                       env.judge)

\* lines 372-423 with the name of line 369
ScoreNamed(profile_url_, name_, passes, env) ==
    CorpusStage(profile_url_, name_, passes, env,
                collect_profile_corpus(profile_url_, name_, passes, env))

\* env = [direct, search, pages, judge]
score_one_profile(profile_url_, passes, env) ==
    ScoreNamed(profile_url_, name_guess(profile_url_), passes, env)      \* line 369

-----------------------------------------------------------------------------
(* validate_apis, agent.py lines 427-446                                   *)

\* venv = [openai, serp_key, test]: whether openai_client() returns, the
\* value of SERPAPI_API_KEY, and the answer to the test request
validate_apis(venv) ==
    IF venv.openai # "ok" THEN [ok |-> FALSE, msg |-> "API authentication failed"]
    ELSE IF Raised(serp_key_required(venv.serp_key))
    THEN [ok |-> FALSE, msg |-> "API authentication failed"]
    ELSE IF venv.test.net # "http"
    THEN [ok |-> FALSE, msg |-> "API authentication failed"]
    ELSE IF venv.test.status # 200
    THEN [ok |-> FALSE, msg |-> "SerpAPI authentication failed"]
    ELSE [ok |-> TRUE, msg |-> ""]

-----------------------------------------------------------------------------
(* Input sets                                                              *)

SeqsUpTo(S, n) == UNION {[1..k -> S] : k \in 0..n}

\* evidence records: a link (absent, None, empty or a URL) and a title that
\* tells records with the same link apart
EvidenceRecords ==
    [link : {None, "", "u1", "u2"}, title : {"t1", "t2"}] \cup [title : {"t1", "t2"}]

\* lines of pasted text: blank, without the marker, and with it
TextLines ==
    { <<>>, <<" ">>, <<"x">>, <<" ", "x", " ">>,
      Marker \o <<"a">>, <<" ">> \o Marker \o <<"a">> \o <<" ", "\t">>,
      Marker \o <<"b">>, <<"w", "."  >> \o Marker \o <<"b">>, <<"i", "n", "/">> }

PastedTexts ==
    {Join(ls, <<"\n">>) : ls \in SeqsUpTo(TextLines, MaxLines)}
      \cup {Join(ls, <<"\n">>) \o <<"\n">> : ls \in SeqsUpTo(TextLines, MaxLines)}

\* profile URLs: an optional scheme and host prefix, the marker, and a slug
SlugChars == {"j", "d", "-", "_", "/", "?", "7"}

UrlPrefixes == {<<>>, <<"h", "t", "t", "p", "s", ":", "/", "/", "w", "w", "w", ".">>}

ProfileUrls ==
    {p \o Marker \o s : p \in UrlPrefixes, s \in SeqsUpTo(SlugChars, MaxSlugLen)}

\* organic results of the search API: items with and without a link
OrganicItems == {[title |-> "t1", link |-> "u1"], [title |-> "t3"]}

InvalidJson == [valid |-> FALSE]

SerpResponses ==
    {[net |-> "ConnectionError"], [net |-> "Timeout"]}
      \cup [net : {"http"}, status : {429, 500}, json : {InvalidJson}]
      \cup [net : {"http"}, status : {200},
            json : {InvalidJson} \cup [valid : {TRUE},
                                       organic_results : SeqsUpTo(OrganicItems, MaxResults)]]

\* values of the SERPAPI_API_KEY environment variable
SerpKeys == {<<>>, <<" ">>, <<"k">>}

SerpEnvs == [key : SerpKeys, resps : [1..StopAfterAttempt -> SerpResponses],
             first_exp : {0, 1}]

IdleSerp == serp_env = None /\ serp_ret = None

\* links the search API can return for a query: the j-th result of the
\* q-th template is a link of its own
LinkNames == <<"l01", "l02", "l03", "l04", "l05", "l06", "l07", "l08", "l09", "l10",
               "l11", "l12", "l13", "l14", "l15", "l16", "l17", "l18", "l19", "l20",
               "l21", "l22", "l23", "l24", "l25", "l26", "l27", "l28", "l29", "l30",
               "l31", "l32", "l33", "l34", "l35", "l36", "l37", "l38", "l39", "l40",
               "l41", "l42", "l43", "l44", "l45", "l46", "l47", "l48", "l49", "l50",
               "l51", "l52", "l53", "l54", "l55", "l56", "l57", "l58", "l59", "l60">>

AllTemplates == Range(ENTREPRENEUR_QUERIES) \cup Range(DISCOVERY_QUERIES)

TemplateNo(q) ==
    IF q \in Range(DISCOVERY_QUERIES) THEN IndexOf(q, DISCOVERY_QUERIES)
    ELSE Len(DISCOVERY_QUERIES) + IndexOf(q, ENTREPRENEUR_QUERIES)

\* the search API answers template q with c results, each a link of its own
FreshAnswer(q, c) ==
    [net |-> "http", status |-> 200,
     json |-> [valid |-> TRUE,
               organic_results |->
                   [j \in 1..c |-> [title |-> "t1",
                                    link |-> LinkNames[(TemplateNo(q) - 1) * MaxPerQuery + j]]]]]

\* the search API answers every template with the links of the first one
SameAnswer(q, c) == FreshAnswer(DISCOVERY_QUERIES[1], c)

FailAnswer == [net |-> "ConnectionError"]

\* web pages
Html(t) == [text |-> t, rejected |-> FALSE]
RejectedHtml == [text |-> <<>>, rejected |-> TRUE]
Page(status, body) == [net |-> "http", status |-> status, body |-> body]

Page400 == Page(200, <<Html(<<Chars(MinChars)>>)>>)
Page401 == Page(200, <<Html(<<Chars(MinChars + 1)>>)>>)

\* answers to the fetch of a discovered link: failures, the two sides of the
\* 400-character gate, and long pages whose first 1200 characters end in
\* whitespace
RichPageResps ==
    { [net |-> "ConnectionError"], Page(404, <<Html(<<Chars(MinChars + 1)>>)>>),
      Page(200, <<>>), Page(200, <<RejectedHtml>>), Page400, Page401,
      Page(200, <<Html(<<Chars(MinChars), Blanks(PageSnippetChars), Chars(1)>>)>>),
      Page(200, <<Html(<<Chars(MinChars + 1), Blanks(PageSnippetChars), Chars(1)>>)>>) }

\* answers to the fetch of the profile URL
DirectResps ==
    { [net |-> "ConnectionError"], [net |-> "Timeout"],
      Page(999, <<Html(<<Chars(MinChars + 1)>>)>>),
      Page(200, <<>>), Page(200, <<RejectedHtml>>),
      Page(200, <<Html(<<>>)>>), Page400, Page401,
      Page(200, <<Html(<<Chars(MinChars + 1), Blanks(ProfileSnippetChars), Chars(1)>>)>>),
      Page(200, <<Html(<<Chars(MinChars), Blanks(ProfileSnippetChars), Chars(1)>>)>>),
      Page(200, <<Html(<<Chars(MinChars - 1), Blanks(ProfileSnippetChars), Chars(1)>>)>>),
      Page(200, <<Html(<<Chars(1), Blanks(ProfileSnippetChars), Chars(MinChars)>>)>>) }

\* search environments in which every template gets c links of its own
UniformSearchEnvs ==
    {[key |-> <<"k">>, answers |-> [q \in AllTemplates |-> FreshAnswer(q, c)]] :
        c \in 0..MaxPerQuery}

\* search environments in which each template fails, or returns one link of
\* its own, or repeats the first template's link; and one without credential
MixedSearchEnvs ==
    {[key |-> <<"k">>,
      answers |-> [q \in AllTemplates |->
                      IF q \in Range(ENTREPRENEUR_QUERIES) THEN FailAnswer
                      ELSE IF kind[q] = "fail" THEN FailAnswer
                      ELSE IF kind[q] = "same" THEN SameAnswer(q, 1)
                      ELSE FreshAnswer(q, 1)]] :
        kind \in [Range(DISCOVERY_QUERIES) -> {"fail", "fresh", "same"}]}
      \cup {[key |-> <<>>, answers |-> [q \in AllTemplates |-> FreshAnswer(q, 1)]]}

\* what the search API does for the templates of one batch: each template
\* fails, returns MaxResults links of its own, or repeats the links of the
\* first discovery template; and a run without credential
BatchSearchEnvs(templates) ==
    {[key |-> <<"k">>,
      answers |-> [q \in AllTemplates |->
                      IF q \notin Range(templates) THEN FailAnswer
                      ELSE IF kind[q] = "fail" THEN FailAnswer
                      ELSE IF kind[q] = "same" THEN SameAnswer(q, MaxResults)
                      ELSE FreshAnswer(q, MaxResults)]] :
        kind \in [Range(templates) -> {"fail", "fresh", "same"}]}
      \cup {[key |-> <<>>, answers |-> [q \in AllTemplates |-> FreshAnswer(q, 1)]]}

\* the calls of the two query batches
EvidenceEnvs ==
    [batch : {"entrepreneur"}, passes : 1..MaxPasses,
     search : BatchSearchEnvs(ENTREPRENEUR_QUERIES)]
      \cup
    [batch : {"discovery"}, passes : 1..MaxPasses,
     search : BatchSearchEnvs(DISCOVERY_QUERIES)]

\* what requests.get can do for one GET: raise a RequestException, or
\* answer with a status and a body that is empty or not
FetchStatuses == {200, 204, 301, 404, 500, 999}

FetchResps ==
    { [net |-> "ConnectionError"], [net |-> "Timeout"] }
      \cup { Page(st, body) : st \in FetchStatuses,
                              body \in {<<>>, <<Html(<<Chars(MinChars + 1)>>)>>} }

\* the two families of environments of collect_profile_corpus: every pattern
\* of accepted and rejected pages over the candidates, and every kind of
\* answer on short candidate lists
CorpusEnvs ==
    [passes : 1..MaxPasses,
     direct : {[net |-> "ConnectionError"]},
     search : UniformSearchEnvs,
     pages  : [1..(MaxCandidates + 1) -> {Page400, Page401}]]
      \cup
    [passes : {1},
     direct : DirectResps,
     search : MixedSearchEnvs,
     pages  : [1..2 -> RichPageResps]]

\* the profile URL the component specifications use
JaneUrl == <<"h", "t", "t", "p", "s", ":", "/", "/">> \o Marker \o <<"j", "-", "d", "/">>

IdleCorpus == corpus_env = None /\ corpus_ret = None

\* answers of the judgment service that make an attempt fail
ApiErrorResp == [client |-> "ok", create |-> "error", content |-> [kind |-> "invalid"]]

JudgeFailures ==
    { [client |-> "Missing OPENAI_API_KEY", create |-> "error",
       content |-> [kind |-> "invalid"]],
      [client |-> "OpenAI authentication failed", create |-> "error",
       content |-> [kind |-> "invalid"]],
      ApiErrorResp,
      [client |-> "ok", create |-> "ok", content |-> [kind |-> "invalid"]],
      [client |-> "ok", create |-> "fallback", content |-> [kind |-> "list"]] }

\* a JSON object with key k when v holds a value, without it when v is <<>>
Field(k, v) == IF v = <<>> THEN <<>> ELSE k :> v[1]

\* values the service returns for contrarian_multiplier: absent, numbers
\* below, inside and above the range (in tenths), a string and null
MultiplierValues ==
    { <<>>, <<JNum(-20)>>, <<JNum(5)>>, <<JNum(9)>>, <<JNum(10)>>, <<JNum(12)>>,
      <<JNum(15)>>, <<JNum(16)>>, <<JNum(30)>>, <<JNaN>>, <<JStr>>, <<JNull>> }

\* the objects the service returns
JudgeObjects ==
    { Field("contrarian_multiplier", cm) @@ Field("entrepreneurial_score", es)
        @@ Field("entrepreneurial_evidence_points", eep) @@ [final_score |-> JNum(37)] :
        cm \in MultiplierValues,
        es \in {<<>>, <<JNum(25)>>, <<JStr>>},
        eep \in {<<>>, <<JList(<<"p1">>)>>, <<JNum(1)>>} }
      \cup {<<>>}

JudgeAnswers ==
    [client : {"ok"}, create : {"ok"}, content : [kind : {"object"}, data : JudgeObjects]]

JudgeResps == JudgeFailures \cup JudgeAnswers

\* the service answers every attempt alike, or fails once or twice first
JudgeEnvs ==
    {[resps |-> <<r, r, r>>] : r \in JudgeResps}
      \cup {[resps |-> <<ApiErrorResp, r, r>>] : r \in JudgeResps}
      \cup {[resps |-> <<ApiErrorResp, ApiErrorResp, r>>] : r \in JudgeResps}

ScoreSearchEnvs ==
    { [key |-> <<"k">>, answers |-> [q \in AllTemplates |-> FailAnswer]],
      [key |-> <<"k">>, answers |-> [q \in AllTemplates |-> FreshAnswer(q, 1)]],
      [key |-> <<"k">>, answers |-> [q \in AllTemplates |->
                                       IF q \in {"d2", "e2"} THEN FailAnswer
                                       ELSE SameAnswer(q, 1)]] }

ScoreEnvs ==
    [passes : 1..MaxPasses,
     direct : {[net |-> "ConnectionError"], Page(200, <<RejectedHtml>>), Page400, Page401},
     search : ScoreSearchEnvs,
     pages  : [1..1 -> {[net |-> "ConnectionError"], Page(200, <<RejectedHtml>>), Page401}],
     judge  : JudgeEnvs]

\* the environment in which every network call raises
TotalFailureEnv ==
    [direct |-> [net |-> "ConnectionError"],
     search |-> [key |-> <<"k">>, answers |-> [q \in AllTemplates |-> FailAnswer]],
     pages  |-> <<[net |-> "ConnectionError"]>>,
     judge  |-> [resps |-> <<ApiErrorResp, ApiErrorResp, ApiErrorResp>>]]

GoodObject == [contrarian_multiplier |-> JNum(12), entrepreneurial_score |-> JNum(25)]

GoodJudge(obj) ==
    LET r == [client |-> "ok", create |-> "ok",
              content |-> [kind |-> "object", data |-> obj]]
    IN  [resps |-> <<r, r, r>>]

\* what the external services do for one URL of a batch: total failure,
\* full success, a profile page the parser rejects, a score that is no
\* number, and a fallback page followed by a judgment failure
BatchEnvs ==
    { TotalFailureEnv,
      [TotalFailureEnv EXCEPT !.direct = Page401,
                              !.search.answers = [q \in AllTemplates |-> FreshAnswer(q, 1)],
                              !.judge = GoodJudge(GoodObject)],
      [TotalFailureEnv EXCEPT !.direct = Page(200, <<RejectedHtml>>)],
      [TotalFailureEnv EXCEPT !.direct = Page401,
                              !.judge = GoodJudge([entrepreneurial_score |-> JStr])],
      [TotalFailureEnv EXCEPT !.search.answers = [q \in AllTemplates |-> FreshAnswer(q, 1)],
                              !.pages = <<Page401>>] }

\* pasted texts of a batch
BatchLines ==
    { JaneUrl, <<" ">> \o JaneUrl, Marker \o <<"-">>, <<"x">> }

BatchTexts == {Join(ls, <<"\n">>) : ls \in SeqsUpTo(BatchLines, MaxBatch)}

\* the sidebar and what validate_apis meets
RunEnvs ==
    [serp_key : {<<>>, <<"k">>},
     openai_key : {<<>>, <<"s", "k", "-">>},
     passes : 1..MaxPasses,
     openai : {"ok", "OpenAI authentication failed"},
     test : {[net |-> "ConnectionError"], [net |-> "http", status |-> 401],
             [net |-> "http", status |-> 200]}]

IdleScore == score_env = None /\ score_ret = None
IdleEvidence == search_env = None /\ evidence_ret = None
IdleFetch == fetch_resp = None /\ fetch_ret = None
IdleRun == run_env = None /\ results = <<>> /\ idx = 0

-----------------------------------------------------------------------------
(* Specifications of the pure functions                                    *)

IdleDedupe == items = <<>> /\ deduped = <<>>
IdleSanitize == text = <<>> /\ urls = <<>>
IdleName == profile_url = <<>> /\ name = <<>>

InitDedupe ==
    /\ pc = "start"
    /\ items \in SeqsUpTo(EvidenceRecords, MaxItems)
    /\ deduped = <<>>
    /\ IdleSanitize /\ IdleName /\ IdleSerp /\ IdleCorpus /\ IdleScore /\ IdleRun /\ IdleEvidence /\ IdleFetch

DedupeLinks ==
    /\ pc = "start"
    /\ deduped' = dedupe_links(items)
    /\ pc' = "done"
    /\ UNCHANGED <<search_env, evidence_ret, fetch_resp, fetch_ret>>
    /\ UNCHANGED <<items, text, urls, profile_url, name, serp_env, serp_ret,
                   corpus_env, corpus_ret, score_env, score_ret, run_env, results, idx>>

NextDedupe == DedupeLinks

SpecDedupe == InitDedupe /\ [][NextDedupe]_vars

InitSanitize ==
    /\ pc = "start"
    /\ text \in PastedTexts
    /\ urls = <<>>
    /\ IdleDedupe /\ IdleName /\ IdleSerp /\ IdleCorpus /\ IdleScore /\ IdleRun /\ IdleEvidence /\ IdleFetch

SanitizeUrls ==
    /\ pc = "start"
    /\ urls' = sanitize_urls(text)
    /\ pc' = "done"
    /\ UNCHANGED <<search_env, evidence_ret, fetch_resp, fetch_ret>>
    /\ UNCHANGED <<items, deduped, text, profile_url, name, serp_env, serp_ret,
                   corpus_env, corpus_ret, score_env, score_ret, run_env, results, idx>>

NextSanitize == SanitizeUrls

SpecSanitize == InitSanitize /\ [][NextSanitize]_vars

InitName ==
    /\ pc = "start"
    /\ profile_url \in ProfileUrls
    /\ name = <<>>
    /\ IdleDedupe /\ IdleSanitize /\ IdleSerp /\ IdleCorpus /\ IdleScore /\ IdleRun /\ IdleEvidence /\ IdleFetch

GuessName ==
    /\ pc = "start"
    /\ name' = name_guess(profile_url)
    /\ pc' = "done"
    /\ UNCHANGED <<search_env, evidence_ret, fetch_resp, fetch_ret>>
    /\ UNCHANGED <<items, deduped, text, urls, profile_url, serp_env, serp_ret,
                   corpus_env, corpus_ret, score_env, score_ret, run_env, results, idx>>

NextName == GuessName

SpecName == InitName /\ [][NextName]_vars

-----------------------------------------------------------------------------
(* Specification of one call of serp_search                                *)

InitSerp ==
    /\ pc = "start"
    /\ serp_env \in SerpEnvs
    /\ serp_ret = None
    /\ IdleDedupe /\ IdleSanitize /\ IdleName /\ IdleCorpus /\ IdleScore /\ IdleRun /\ IdleEvidence /\ IdleFetch

SerpSearch ==
    /\ pc = "start"
    /\ serp_ret' = serp_search("q", serp_env)
    /\ pc' = "done"
    /\ UNCHANGED <<search_env, evidence_ret, fetch_resp, fetch_ret>>
    /\ UNCHANGED <<items, deduped, text, urls, profile_url, name, serp_env,
                   corpus_env, corpus_ret, score_env, score_ret, run_env, results, idx>>

NextSerp == SerpSearch

SpecSerp == InitSerp /\ [][NextSerp]_vars

-----------------------------------------------------------------------------
(* Specification of one call of collect_profile_corpus                     *)

InitCorpus ==
    /\ pc = "start"
    /\ profile_url = JaneUrl
    /\ name = name_guess(JaneUrl)
    /\ corpus_env \in CorpusEnvs
    /\ corpus_ret = None
    /\ IdleDedupe /\ IdleSanitize /\ IdleSerp /\ IdleScore /\ IdleRun /\ IdleEvidence /\ IdleFetch

CollectProfileCorpus ==
    /\ pc = "start"
    /\ corpus_ret' = collect_profile_corpus(profile_url, name, corpus_env.passes, corpus_env)
    /\ pc' = "done"
    /\ UNCHANGED <<search_env, evidence_ret, fetch_resp, fetch_ret>>
    /\ UNCHANGED <<items, deduped, text, urls, profile_url, name, serp_env, serp_ret,
                   corpus_env, score_env, score_ret, run_env, results, idx>>

NextCorpus == CollectProfileCorpus

SpecCorpus == InitCorpus /\ [][NextCorpus]_vars

-----------------------------------------------------------------------------
(* Specification of one call of a query batch                              *)

InitEvidence ==
    /\ pc = "start"
    /\ name = name_guess(JaneUrl)
    /\ search_env \in EvidenceEnvs
    /\ evidence_ret = None
    /\ profile_url = <<>>
    /\ IdleDedupe /\ IdleSanitize /\ IdleSerp /\ IdleCorpus /\ IdleScore /\ IdleRun
    /\ IdleFetch

CollectEntrepreneurEvidence ==
    /\ pc = "start"
    /\ search_env.batch = "entrepreneur"
    /\ evidence_ret' = collect_entrepreneur_evidence(name, search_env.passes,
                                                     search_env.search)
    /\ pc' = "done"
    /\ UNCHANGED <<search_env, fetch_resp, fetch_ret>>
    /\ UNCHANGED <<items, deduped, text, urls, profile_url, name, serp_env, serp_ret,
                   corpus_env, corpus_ret, score_env, score_ret, run_env, results, idx>>

DiscoverPersonalSources ==
    /\ pc = "start"
    /\ search_env.batch = "discovery"
    /\ evidence_ret' = discover_personal_sources(name, search_env.passes,
                                                 search_env.search)
    /\ pc' = "done"
    /\ UNCHANGED <<search_env, fetch_resp, fetch_ret>>
    /\ UNCHANGED <<items, deduped, text, urls, profile_url, name, serp_env, serp_ret,
                   corpus_env, corpus_ret, score_env, score_ret, run_env, results, idx>>

NextEvidence == CollectEntrepreneurEvidence \/ DiscoverPersonalSources

SpecEvidence == InitEvidence /\ [][NextEvidence]_vars

-----------------------------------------------------------------------------
(* Specification of one call of fetch_url.  fetch_resp[1] is what the GET  *)
(* of line 82 meets and fetch_resp[2] what a second GET would meet.        *)

InitFetch ==
    /\ pc = "start"
    /\ fetch_resp \in [1..2 -> FetchResps]
    /\ fetch_ret = None
    /\ IdleDedupe /\ IdleSanitize /\ IdleName /\ IdleSerp /\ IdleCorpus /\ IdleScore
    /\ IdleRun /\ IdleEvidence

FetchUrl ==
    /\ pc = "start"
    /\ fetch_ret' = fetch_url(fetch_resp[1])
    /\ pc' = "done"
    /\ UNCHANGED <<search_env, evidence_ret, fetch_resp>>
    /\ UNCHANGED <<items, deduped, text, urls, profile_url, name, serp_env, serp_ret,
                   corpus_env, corpus_ret, score_env, score_ret, run_env, results, idx>>

NextFetch == FetchUrl

SpecFetch == InitFetch /\ [][NextFetch]_vars

-----------------------------------------------------------------------------
(* Specification of one call of score_one_profile                          *)

InitScore ==
    /\ pc = "start"
    /\ profile_url \in {JaneUrl, Marker \o <<"-">>}
    /\ name = <<>>
    /\ score_env \in ScoreEnvs
    /\ score_ret = None
    /\ IdleDedupe /\ IdleSanitize /\ IdleSerp /\ IdleCorpus /\ IdleRun /\ IdleEvidence /\ IdleFetch

ScoreOneProfile ==
    /\ pc = "start"
    /\ score_ret' = score_one_profile(profile_url, score_env.passes, score_env)
    /\ name' = name_guess(profile_url)
    /\ pc' = "done"
    /\ UNCHANGED <<search_env, evidence_ret, fetch_resp, fetch_ret>>
    /\ UNCHANGED <<items, deduped, text, urls, profile_url, serp_env, serp_ret,
                   corpus_env, corpus_ret, score_env, run_env, results, idx>>

NextScore == ScoreOneProfile

SpecScore == InitScore /\ [][NextScore]_vars

-----------------------------------------------------------------------------
(* Specification of a batch run, app_streamlit.py lines 179-217            *)

InitRun ==
    /\ pc = "start"
    /\ text \in BatchTexts
    /\ urls = <<>>
    /\ run_env \in RunEnvs
    /\ results = <<>>
    /\ idx = 0
    /\ IdleDedupe /\ IdleName /\ IdleSerp /\ IdleCorpus /\ IdleScore /\ IdleEvidence /\ IdleFetch

\* lines 179-199: the checks before the loop; st.stop() ends the script
RunStart ==
    /\ pc = "start"
    /\ IF run_env.serp_key = <<>> \/ run_env.openai_key = <<>>
       THEN pc' = "stopped" /\ UNCHANGED <<urls, idx>>
       ELSE /\ urls' = sanitize_urls(text)
            /\ IF urls' = <<>>
               THEN pc' = "stopped" /\ UNCHANGED idx
               ELSE IF ~validate_apis([openai |-> run_env.openai,
                                       serp_key |-> run_env.serp_key,
                                       test |-> run_env.test]).ok
               THEN pc' = "stopped" /\ UNCHANGED idx
               ELSE pc' = "loop" /\ idx' = 1
    /\ UNCHANGED <<search_env, evidence_ret, fetch_resp, fetch_ret>>
    /\ UNCHANGED <<items, deduped, text, profile_url, name, serp_env, serp_ret,
                   corpus_env, corpus_ret, score_env, score_ret, run_env, results>>

\* lines 201-214: one iteration of the loop, whatever the services do
ScoreNext ==
    /\ pc = "loop"
    /\ idx <= Len(urls)
    /\ \E env \in BatchEnvs :
          LET rep == score_one_profile(urls[idx], run_env.passes, env)
          IN  results' = IF Raised(rep) THEN results          \* line 211
                         ELSE Append(results, rep.value)      \* line 209
    /\ idx' = idx + 1
    /\ UNCHANGED <<search_env, evidence_ret, fetch_resp, fetch_ret>>
    /\ UNCHANGED <<pc, items, deduped, text, urls, profile_url, name, serp_env, serp_ret,
                   corpus_env, corpus_ret, score_env, score_ret, run_env>>

\* lines 216-217: the loop is over
RunEnd ==
    /\ pc = "loop"
    /\ idx > Len(urls)
    /\ pc' = "done"
    /\ UNCHANGED <<search_env, evidence_ret, fetch_resp, fetch_ret>>
    /\ UNCHANGED <<items, deduped, text, urls, profile_url, name, serp_env, serp_ret,
                   corpus_env, corpus_ret, score_env, score_ret, run_env, results, idx>>

NextRun == RunStart \/ ScoreNext \/ RunEnd

SpecRun == InitRun /\ [][NextRun]_vars

-----------------------------------------------------------------------------
(* Properties of the pure functions                                        *)

\* positions of `its` that hold the first record of a non-missing link
FirstLinkPositions(its) ==
    {i \in 1..Len(its) :
        /\ "link" \in DOMAIN its[i] /\ its[i].link \notin {None, ""}
        /\ \A j \in 1..(i - 1) : ~("link" \in DOMAIN its[j]) \/ its[j].link # its[i].link}

\* the k-th smallest element of a finite set of integers
KthSmallest(S, k) == CHOOSE x \in S : Cardinality({y \in S : y < x}) = k - 1

\* C3: dedupe_links returns exactly the first record of each distinct
\* non-missing link, in order of first appearance: no two output records share
\* a link, none has a missing or empty link, every distinct non-empty input
\* link appears exactly once, and deduplicating the output changes nothing.
Thm_C3_DedupeFirstPerLink ==
    pc = "done" =>
        /\ Len(deduped) = Cardinality(FirstLinkPositions(items))
        /\ \A k \in 1..Len(deduped) :
              deduped[k] = items[KthSmallest(FirstLinkPositions(items), k)]
        /\ \A k \in 1..Len(deduped) :
              "link" \in DOMAIN deduped[k] /\ deduped[k].link \notin {None, ""}
        /\ \A k, m \in 1..Len(deduped) : k # m => deduped[k].link # deduped[m].link
        /\ \A i \in 1..Len(items) :
              ("link" \in DOMAIN items[i] /\ items[i].link \notin {None, ""}) =>
                  Cardinality({k \in 1..Len(deduped) : deduped[k].link = items[i].link}) = 1
        /\ dedupe_links(deduped) = deduped

\* C3 witness: a list with a repeated link under two different titles and a
\* record with an empty link has been deduplicated to one record
Wit_C3_DuplicatesDropped ==
    /\ pc = "done"
    /\ Len(items) = 3 /\ Len(deduped) = 1
    /\ \E i, j \in 1..Len(items) :
          /\ i < j
          /\ "link" \in DOMAIN items[i] /\ "link" \in DOMAIN items[j]
          /\ items[i].link = "u1" /\ items[j].link = "u1"
          /\ items[i].title # items[j].title
    /\ \E i \in 1..Len(items) : "link" \in DOMAIN items[i] /\ items[i].link = ""

\* the stripped lines of the pasted text
StrippedLines(t) == StripAll(SplitLines(t))

\* the first position of u in seq, 0 when absent
FirstIndex(seq, u) ==
    IF \E i \in 1..Len(seq) : seq[i] = u
    THEN CHOOSE i \in 1..Len(seq) : seq[i] = u /\ \A j \in 1..(i - 1) : seq[j] # u
    ELSE 0

\* C4: sanitize_urls returns a duplicate-free list whose entries are
\* whitespace-trimmed input lines containing the marker, in order of first
\* occurrence, no longer than the number of marker-bearing lines; blank and
\* non-matching lines never appear.
Thm_C4_SanitizeUrls ==
    pc = "done" =>
        /\ \A k, m \in 1..Len(urls) : k # m => urls[k] # urls[m]
        /\ \A k \in 1..Len(urls) :
              /\ urls[k] # <<>>
              /\ urls[k][1] \notin Whitespace /\ urls[k][Len(urls[k])] \notin Whitespace
              /\ \E i \in 1..(Len(urls[k]) - Len(Marker) + 1) :
                    SubSeq(urls[k], i, i + Len(Marker) - 1) = Marker
              /\ FirstIndex(StrippedLines(text), urls[k]) # 0
        /\ \A k, m \in 1..Len(urls) :
              k < m => FirstIndex(StrippedLines(text), urls[k])
                         < FirstIndex(StrippedLines(text), urls[m])
        /\ Len(urls) <= Cardinality({i \in 1..Len(SplitLines(text)) :
                                        Contains(SplitLines(text)[i], Marker)})

\* C4 witness: a text with a repeated, padded profile line, a blank line and
\* a non-matching line has been reduced to fewer entries than it has lines
Wit_C4_RepeatedAndPaddedLines ==
    /\ pc = "done"
    /\ Len(SplitLines(text)) = 3
    /\ Len(urls) = 1
    /\ \E i, j \in 1..3 :
          /\ i < j
          /\ SplitLines(text)[i] # SplitLines(text)[j]
          /\ Contains(SplitLines(text)[i], Marker)
          /\ Contains(SplitLines(text)[j], Marker)
    /\ \E i \in 1..3 : ~Contains(SplitLines(text)[i], Marker)

\* C8: the name guess of line 369 is non-empty for every profile URL that
\* contains the marker.  The code violates it: for the URL
\* "linkedin.com/in/-" both the slug guess and the trailing-segment fallback
\* are empty.
Cex_C8_NameGuessNonEmpty == pc = "done" => name # <<>>

-----------------------------------------------------------------------------
(* Properties of serp_search                                               *)

AttemptEvents(trace) == SelectSeq(trace, LAMBDA e : e.ev = "attempt")

SleepEvents(trace) == SelectSeq(trace, LAMBDA e : e.ev = "sleep")

\* whether the n-th answer of the environment lets the body of serp_search return
AnswerSucceeds(env, n) ==
    /\ \E i \in 1..Len(env.key) : env.key[i] \notin Whitespace
    /\ env.resps[n].net = "http"
    /\ env.resps[n].status = 200
    /\ env.resps[n].json.valid

\* C9: with the search credential missing or blank, serp_search fails on its
\* first and only attempt, without retry or backoff wait and without a network
\* request, and the caller receives the configuration error itself.  The code
\* violates it: the retry decorator retries the configuration error like any
\* other exception and raises RetryError after three attempts and two waits.
Cex_C9_MissingKeyFailsFast ==
    (pc = "done" /\ \A i \in 1..Len(serp_env.key) : serp_env.key[i] \in Whitespace) =>
        /\ Len(AttemptEvents(serp_ret.trace)) = 1
        /\ SleepEvents(serp_ret.trace) = <<>>
        /\ \A i \in 1..Len(serp_ret.trace) :
              serp_ret.trace[i].ev = "attempt" => ~serp_ret.trace[i].request
        /\ serp_ret.exc = Exc("RuntimeError", "Missing SERPAPI_API_KEY")

\* C10: one call of serp_search makes at most 3 attempts; it returns the
\* results of the first attempt that succeeds and attempts nothing after it;
\* it retries only after a failed attempt, sleeping between 1 and 6 time-units
\* before each retry; it raises if and only if three consecutive attempts
\* failed, and the error carries the cause of the last failed attempt.
Thm_C10_RetryPolicy ==
    pc = "done" =>
        LET tr  == serp_ret.trace
            att == AttemptEvents(tr)
            k   == Len(att)
        IN  /\ k >= 1 /\ k <= 3
            /\ Len(tr) = 2 * k - 1
            /\ \A i \in 1..Len(tr) :
                  IF i % 2 = 1
                  THEN tr[i].ev = "attempt" /\ tr[i].n = (i + 1) \div 2
                  ELSE /\ tr[i].ev = "sleep" /\ tr[i].t >= 1 /\ tr[i].t <= 6
                       /\ tr[i - 1].exc # NoExc
            /\ \A n \in 1..k : (att[n].exc = NoExc) <=> AnswerSucceeds(serp_env, n)
            /\ \A n \in 1..(k - 1) : att[n].exc # NoExc
            /\ (serp_ret.exc = NoExc) <=> (att[k].exc = NoExc)
            /\ serp_ret.exc = NoExc =>
                  /\ Len(serp_ret.value) = Len(serp_env.resps[k].json.organic_results)
                  /\ \A i \in 1..Len(serp_ret.value) :
                        LET item == serp_env.resps[k].json.organic_results[i]
                        IN  /\ serp_ret.value[i].title = item.title
                            /\ serp_ret.value[i].link =
                                  (IF "link" \in DOMAIN item THEN item.link ELSE "")
                            /\ serp_ret.value[i].query = "q"
            /\ (serp_ret.exc # NoExc) <=>
                  (k = 3 /\ \A n \in 1..3 : ~AnswerSucceeds(serp_env, n))
            /\ serp_ret.exc # NoExc =>
                  /\ serp_ret.exc.type = "RetryError"
                  /\ serp_ret.exc.last_attempt = att[3].exc
                  /\ serp_ret.exc.last_attempt.type # "none"

\* C10 witness: a call whose first two attempts failed and whose third
\* attempt returned results, after two backoff sleeps
Wit_C10_ThirdAttemptSucceeds ==
    /\ pc = "done"
    /\ serp_ret.exc = NoExc
    /\ Len(AttemptEvents(serp_ret.trace)) = 3
    /\ Len(SleepEvents(serp_ret.trace)) = 2
    /\ Len(serp_ret.value) = 2

-----------------------------------------------------------------------------
(* Properties of collect_profile_corpus                                    *)

\* the fetches of discovered links: all but the fetch of the profile URL
FallbackFetches(ret) == Tail(ret.fetches)

\* the pages the fallback loop accepted
AcceptedPages(ret) == SelectSeq(ret.corpus, LAMBDA r : r.query = "direct_fetch")

\* whether the page fetched from url was accepted into the corpus
WasAccepted(ret, url) ==
    \E i \in 1..Len(ret.corpus) :
        ret.corpus[i].query = "direct_fetch" /\ ret.corpus[i].link = url

\* C5: in the fallback path only the first 8 discovered links are fetched, in
\* discovery order and each at most once; at most 5 pages are accepted; no
\* fetch follows the fifth acceptance; with 8 acceptable candidates exactly 5
\* fetches happen and 5 pages are accepted.
Thm_C5_FallbackCaps ==
    (pc = "done" /\ corpus_ret.fallback) =>
        LET fb   == FallbackFetches(corpus_ret)
            disc == corpus_ret.discovered
        IN  /\ Len(fb) <= 8 /\ Len(fb) <= Len(disc)
            /\ \A i \in 1..Len(fb) : fb[i].url = disc[i].link
            /\ \A i, j \in 1..Len(fb) : i # j => fb[i].url # fb[j].url
            /\ corpus_ret.exc = NoExc =>
                  /\ Len(AcceptedPages(corpus_ret)) <= 5
                  /\ \A i \in 1..Len(fb) :
                        Cardinality({j \in 1..(i - 1) : WasAccepted(corpus_ret, fb[j].url)}) < 5
                  /\ (Len(disc) >= 8 /\ \A k \in 1..8 : corpus_env.pages[k] = Page401) =>
                        Len(fb) = 5 /\ Len(AcceptedPages(corpus_ret)) = 5
                  /\ corpus_ret.trav[Len(corpus_ret.trav)] =
                        [action |-> "personal_sources_used",
                         count |-> Len(AcceptedPages(corpus_ret))]

\* C5 witness: more than 8 links were discovered, the first candidates were
\* a mix of rejected and accepted pages, and the eighth fetch brought the
\* fifth accepted page
Wit_C5_FifthAcceptedAtEighthFetch ==
    /\ pc = "done" /\ corpus_ret.fallback /\ corpus_ret.exc = NoExc
    /\ Len(corpus_ret.discovered) > 8
    /\ Len(FallbackFetches(corpus_ret)) = 8
    /\ Len(AcceptedPages(corpus_ret)) = 5

\* the events of a log, other than the two of the direct fetch, that carry
\* anything of a fetch: its URL, its status or its note
OtherFetchEvents(trav) ==
    {j \in 1..Len(trav) :
        /\ trav[j].action \notin {"fetch_linkedin", "fetch_linkedin_result"}
        /\ \E k \in {"url", "link", "status", "note"} : k \in DOMAIN trav[j]}

\* C12: in every run of collect_profile_corpus that returns, the log records
\* every fetch attempt made (the direct fetch of the profile URL, and each
\* fetch of a discovered link with an event of its own) and holds an event
\* with the final number of accepted pages.  The code logs the direct fetch
\* alone: the fetches of lines 243-249 leave no event, and the count event of
\* line 250 exists on the fallback path only.
Cex_C12_EveryFetchLogged ==
    pc = "done" /\ corpus_ret.exc = NoExc =>
        LET trav == corpus_ret.trav
        IN  /\ \E j \in 1..Len(trav) :
                  /\ trav[j].action = "fetch_linkedin_result"
                  /\ trav[j].status = corpus_ret.fetches[1].status
                  /\ trav[j].note = corpus_ret.fetches[1].note
            /\ Cardinality(OtherFetchEvents(trav)) >= Len(FallbackFetches(corpus_ret))
            /\ \E j \in 1..Len(trav) :
                  /\ trav[j].action = "personal_sources_used"
                  /\ trav[j].count = Len(AcceptedPages(corpus_ret))

\* C6: every PageRecord of the returned corpus has a snippet longer than 400
\* characters.  The code violates it for the profile page, which line 231
\* admits on the length of the whole text while the record holds the first
\* 1600 characters stripped: a text whose first 1600 characters end in a long
\* whitespace run yields a record with a snippet of 400 characters or fewer.
Cex_C6_EverySnippetOverMinimum ==
    (pc = "done" /\ corpus_ret.exc = NoExc) =>
        \A i \in 1..Len(corpus_ret.corpus) :
            TextLen(corpus_ret.corpus[i].snippet) > 400

-----------------------------------------------------------------------------
(* Properties of score_one_profile                                         *)

ReportKeys ==
    {"profile_url", "name_guess", "entrepreneurial_score", "contrarian_multiplier",
     "final_score", "summary", "confidence", "entrepreneurial_evidence_points",
     "contrarian_evidence_points", "source_confidence_assessments",
     "high_confidence_sources_used", "pages", "search_evidence", "traversal_log"}

\* the shape of the report of lines 407-423
IsZeroedReport(rep) ==
    /\ rep.entrepreneurial_score = JNum(0)
    /\ rep.contrarian_multiplier = JNum(10)
    /\ rep.final_score = JNum(0)
    /\ rep.confidence = JNum(0)
    /\ rep.pages = <<>>
    /\ rep.search_evidence = <<>>
    /\ rep.entrepreneurial_evidence_points = <<>>
    /\ rep.contrarian_evidence_points = <<>>
    /\ rep.source_confidence_assessments = <<>>
    /\ rep.high_confidence_sources_used = <<>>
    /\ "error" \in DOMAIN rep
    /\ rep.error # ""

\* whether a stage of the pipeline raises in this environment: the corpus
\* collection, the judgment, or the conversions of the judgment's fields
StageRaises(url, env) ==
    LET c == collect_profile_corpus(url, name_guess(url), env.passes, env)
        j == judge_with_llm(env.judge)
    IN  \/ Raised(c)
        \/ Raised(j)
        \/ Raised(SuccessReport(url, name_guess(url), j.value, <<>>, <<>>, <<>>))

\* whether every network call raises in this environment
EveryCallRaises(env) ==
    /\ env.direct.net # "http"
    /\ \A q \in AllTemplates : env.search.answers[q].net # "http"
    /\ \A k \in DOMAIN env.pages : env.pages[k].net # "http"
    /\ \A n \in 1..3 : env.judge.resps[n].client # "ok" \/ env.judge.resps[n].create = "error"

\* C1: score_one_profile returns a report and never propagates an exception,
\* whatever the page fetches, the search calls and the judgment call do; when
\* a stage raised the report has scores 0.0, multiplier 1.0, confidence 0.0,
\* empty pages, search_evidence and evidence-point lists, and a non-empty
\* error string.
Thm_C1_AlwaysReturnsReport ==
    pc = "done" =>
        /\ score_ret.exc = NoExc
        /\ ReportKeys \subseteq DOMAIN score_ret.value
        /\ score_ret.value.profile_url = profile_url
        /\ StageRaises(profile_url, score_env) => IsZeroedReport(score_ret.value)
        /\ EveryCallRaises(score_env) => IsZeroedReport(score_ret.value)
        /\ "error" \in DOMAIN score_ret.value => IsZeroedReport(score_ret.value)

\* C1 witness: every network call raised and a zeroed report carrying the
\* cause came back
Wit_C1_TotalFailureReport ==
    /\ pc = "done"
    /\ EveryCallRaises(score_env)
    /\ score_ret.exc = NoExc
    /\ IsZeroedReport(score_ret.value)
    /\ score_ret.value.error = "RuntimeError: Error in LLM judging: APIError"

\* whether the body of judge_with_llm returns on this answer of the service
JudgeAnswerUsable(r) ==
    /\ r.client = "ok" /\ r.create # "error" /\ r.content.kind = "object"
    /\ "contrarian_multiplier" \in DOMAIN r.content.data =>
          ~Unorderable(r.content.data.contrarian_multiplier)

\* a float inside the closed range [1.0, 1.5]
InClampRange(x) == x.t = "num" /\ x.v >= ClampLow /\ x.v <= ClampHigh

\* C7: the contrarian_multiplier of every report lies in [1.0, 1.5], whatever
\* value the service returned: a value below 1.0 becomes 1.0, one above 1.5
\* becomes 1.5, one inside the range is kept, an absent one becomes 1.0, and
\* a failure report has 1.0.
Cex_C7_MultiplierClamped ==
    pc = "done" =>
        LET rep == score_ret.value
        IN  /\ InClampRange(rep.contrarian_multiplier)
            /\ "error" \in DOMAIN rep => rep.contrarian_multiplier = JNum(ClampLow)
            /\ "error" \notin DOMAIN rep =>
                  \E n \in 1..StopAfterAttempt :
                      /\ JudgeAnswerUsable(score_env.judge.resps[n])
                      /\ \A m \in 1..(n - 1) : ~JudgeAnswerUsable(score_env.judge.resps[m])
                      /\ LET d == score_env.judge.resps[n].content.data
                         IN  IF "contrarian_multiplier" \notin DOMAIN d
                             THEN rep.contrarian_multiplier = JNum(ClampLow)
                             ELSE LET x == d.contrarian_multiplier
                                  IN  x.t = "num" =>
                                        rep.contrarian_multiplier =
                                          JNum(IF x.v < ClampLow THEN ClampLow
                                               ELSE IF x.v > ClampHigh THEN ClampHigh
                                               ELSE x.v)

-----------------------------------------------------------------------------
(* Properties of fetch_url                                                 *)

\* (body, 200, "ok") for a response with status 200 and a non-empty body
OutcomeOk(r, o) ==
    /\ r.net = "http" /\ r.status = 200 /\ r.body # <<>>
    /\ o.html = r.body /\ o.html # <<>> /\ o.status = 200 /\ o.note = [kind |-> "ok"]

\* (none, 0, "request_error:...") when requests.get raises
OutcomeRequestError(r, o) ==
    /\ r.net # "http"
    /\ o.html = <<>> /\ o.status = 0 /\ o.note.kind = "request_error"

\* (none, s, "http_status_s") for the status s of the response
OutcomeStatus(r, o) ==
    /\ r.net = "http"
    /\ o.html = <<>> /\ o.status = r.status
    /\ o.note = [kind |-> "http_status", status |-> r.status]

-----------------------------------------------------------------------------
(* Properties of the query batches                                         *)

BatchTemplates(env) ==
    IF env.batch = "entrepreneur" THEN ENTREPRENEUR_QUERIES ELSE DISCOVERY_QUERIES

BatchAction(env) ==
    IF env.batch = "entrepreneur" THEN "serp_search" ELSE "serp_discovery"

BatchAggregate(env) ==
    IF env.batch = "entrepreneur" THEN "entrepreneur_aggregate" ELSE "discovery_aggregate"

\* min(3 * passes, number of templates)
IssuedCount(env) ==
    IF 3 * env.passes < Len(BatchTemplates(env)) THEN 3 * env.passes
    ELSE Len(BatchTemplates(env))

\* whether the search for template q fails in this environment
QueryFails(env, q) == env.search.key = <<>> \/ env.search.answers[q].net # "http"

\* the number of failed queries among the first k templates
FailedAmong(env, k) ==
    Cardinality({m \in 1..k : QueryFails(env, BatchTemplates(env)[m])})

\* the links the search API returned for the issued templates that succeeded
ReturnedLinks(env) ==
    UNION { {env.search.answers[BatchTemplates(env)[i]].json.organic_results[j].link :
                j \in 1..Len(env.search.answers[BatchTemplates(env)[i]].json.organic_results)} :
            i \in {m \in 1..IssuedCount(env) : ~QueryFails(env, BatchTemplates(env)[m])} }

\* C11: a query batch issues exactly the first min(3 * passes, number of
\* templates) templates in template order, whatever queries fail; a failed
\* query adds no record and is followed directly by its error event; the log
\* holds one query event per issued query, one error event per failed query
\* and one aggregate event, the last, whose total_results is the number of
\* deduplicated records returned.
Thm_C11_QueryBatch ==
    pc = "done" =>
        LET env  == search_env
            ts   == BatchTemplates(env)
            n    == IssuedCount(env)
            trav == evidence_ret.trav
            res  == evidence_ret.results
        IN  /\ Len(trav) = n + FailedAmong(env, n) + 1
            /\ \A i \in 1..n :
                  LET p == i + FailedAmong(env, i - 1)
                  IN  /\ trav[p] = [action |-> BatchAction(env),
                                    query |-> FormatQuery(ts[i], name)]
                      /\ QueryFails(env, ts[i]) =>
                            /\ trav[p + 1].action = "error"
                            /\ trav[p + 1].query = FormatQuery(ts[i], name)
                      /\ ~QueryFails(env, ts[i]) => trav[p + 1].action # "error"
            /\ trav[Len(trav)] = [action |-> BatchAggregate(env),
                                  total_results |-> Len(res)]
            /\ \A j \in 1..(Len(trav) - 1) : trav[j].action # BatchAggregate(env)
            /\ \A k \in 1..Len(res) :
                  \E i \in 1..n : /\ res[k].query = FormatQuery(ts[i], name)
                                  /\ ~QueryFails(env, ts[i])
            /\ {res[k].link : k \in 1..Len(res)} = ReturnedLinks(env)
            /\ \A k, l \in 1..Len(res) : res[k].link = res[l].link => k = l

\* C11 witness: the discovery batch with passes = 2 issued all four
\* templates; the first and third failed, the fourth returned records
Wit_C11_FailuresDoNotAbort ==
    /\ pc = "done"
    /\ search_env.batch = "discovery" /\ search_env.passes = 2
    /\ QueryFails(search_env, "d1") /\ QueryFails(search_env, "d3")
    /\ ~QueryFails(search_env, "d4")
    /\ Len(evidence_ret.trav) = 7
    /\ evidence_ret.trav[2].action = "error"
    /\ evidence_ret.trav[6].action = "serp_discovery"
    /\ Len(evidence_ret.results) > 0

\* whether sequence a is the beginning of sequence b
IsPrefix(a, b) == Len(a) <= Len(b) /\ SubSeq(b, 1, Len(a)) = a

\* C14: the traversal_log of every report lists, in recording order, all
\* events recorded up to the moment the report was produced, the events of
\* the corpus collection before those of the evidence collection; a failure
\* report misses no event a stage had recorded before the failure.  The code
\* extends the log only after a stage has returned (lines 374 and 377), so
\* the events a raising corpus collection had recorded are lost.
Cex_C14_LogKeepsRecordedEvents ==
    pc = "done" =>
        LET rep == score_ret.value
            c   == collect_profile_corpus(profile_url, name_guess(profile_url),
                                          score_env.passes, score_env)
            ev  == collect_entrepreneur_evidence(name_guess(profile_url),
                                                 score_env.passes, score_env.search)
        IN  /\ IsPrefix(c.trav, rep.traversal_log)
            /\ IF Raised(c) THEN rep.traversal_log = c.trav
               ELSE rep.traversal_log = c.trav \o ev.trav

-----------------------------------------------------------------------------
(* Properties of the batch run                                             *)

====
